---- MODULE Spec2Model ----
(***************************************************************************)
(* godi: module-graph construction over go.uber.org/dig scopes             *)
(* (module.go, godi.go), controller / guard / route registration and the   *)
(* per-request guard pipeline (controller.go).                             *)
(*                                                                         *)
(* Strings that the code inspects (route patterns) are sequences of        *)
(* one-character strings; everything else is an opaque name.               *)
(***************************************************************************)
EXTENDS Integers, Sequences, FiniteSets, TLC

\* ------------------------------------------------------------------ bounds
MaxImports == 2      \* longest Imports list of a module declaration
MaxRequests == 2     \* requests dispatched (concurrently) after the build
MaxConns == 2        \* connections the http.Server serves at a time

nil == "nil"

\* ------------------------------------------------------- generic helpers
Range(s) == {s[i] : i \in 1..Len(s)}

BoundedSeq(S, n) == UNION {[1..k -> S] : k \in 0..n}

\* every ordering of the elements of s (duplicates of s collapse)
Orderings(s) ==
  LET n == Len(s)
      bij == {f \in [1..n -> 1..n] : \A a, b \in 1..n : a # b => f[a] # f[b]}
  IN {[k \in 1..n |-> s[f[k]]] : f \in bij}

RECURSIVE ConcatAll(_)
ConcatAll(ss) == IF ss = <<>> THEN <<>> ELSE Head(ss) \o ConcatAll(Tail(ss))

\* all ways to pick one element from each set of the sequence of sets
RECURSIVE Product(_)
Product(sets) ==
  IF sets = <<>> THEN {<<>>}
  ELSE {<<h>> \o t : h \in Head(sets), t \in Product(Tail(sets))}

\* ------------------------------------------------ declarations (fixtures)
\* Provider constructors: produced type and parameter types.
ProviderCtor(c) ==
  CASE c = "NewE"  -> [out |-> "E", deps |-> {}]
    [] c = "NewED" -> [out |-> "E", deps |-> {"D"}]
    [] c = "NewD"  -> [out |-> "D", deps |-> {}]
    [] c = "newHttpServer" -> [out |-> "HttpServer", deps |-> {}]

\* Guard constructors: the guard they build and their parameter types.
GuardCtor(c) ==
  CASE c = "NewGuardE" -> [out |-> "gE", deps |-> {"E"}]

GET == <<"G", "E", "T">>

Route(p, gs) == [Method |-> GET, Pattern |-> p, Guards |-> gs, GuardsCtors |-> <<>>]

\* ControllerConfig values returned by Controller.Config().
ControllerConfig(d) ==
  CASE d = "cN"  -> [Pattern |-> <<>>, Guards |-> <<>>, GuardsCtors |-> <<>>,
                     RoutesCfgs |-> <<>>]
    [] d = "cGE" -> [Pattern |-> <<>>, Guards |-> <<>>, GuardsCtors |-> <<"NewGuardE">>,
                     RoutesCfgs |-> <<>>]
    [] d = "cG"  -> [Pattern |-> <<"/", "g">>, Guards |-> <<"gB">>, GuardsCtors |-> <<>>,
                     RoutesCfgs |-> <<>>]
    [] d = "c0"  -> [Pattern |-> <<"/", "0">>, Guards |-> <<>>, GuardsCtors |-> <<>>,
                     RoutesCfgs |-> <<Route(<<"/", "x">>, <<>>)>>]
    [] d = "cS"  -> [Pattern |-> <<>>, Guards |-> <<>>, GuardsCtors |-> <<>>,
                     RoutesCfgs |-> <<Route(<<"/", "x">>, <<>>)>>]
    [] d = "cE"  -> [Pattern |-> <<>>, Guards |-> <<>>, GuardsCtors |-> <<>>,
                     RoutesCfgs |-> <<Route(<<>>, <<>>)>>]
    [] d = "cP"  -> [Pattern |-> <<"/", "a">>, Guards |-> <<>>, GuardsCtors |-> <<>>,
                     RoutesCfgs |-> <<Route(<<"/", "x">>, <<>>), Route(<<"y">>, <<>>)>>]
    [] d = "cAB" -> [Pattern |-> <<"/", "a">>, Guards |-> <<"gA", "gB">>, GuardsCtors |-> <<>>,
                     RoutesCfgs |-> <<Route(<<"/", "x">>, <<"gC", "gD">>)>>]
    [] d = "c2R" -> [Pattern |-> <<"/", "r">>, Guards |-> <<"gA">>, GuardsCtors |-> <<>>,
                     RoutesCfgs |-> <<Route(<<"/", "x">>, <<"gC">>),
                                      Route(<<"/", "y">>, <<"gD">>)>>]
    [] d = "c1"  -> [Pattern |-> <<"/", "1">>, Guards |-> <<"gA">>, GuardsCtors |-> <<>>,
                     RoutesCfgs |-> <<Route(<<"/", "x">>, <<>>)>>]
    [] d = "c2"  -> [Pattern |-> <<"/", "2">>, Guards |-> <<"gB">>, GuardsCtors |-> <<>>,
                     RoutesCfgs |-> <<Route(<<"/", "x">>, <<>>)>>]

\* Controller constructors: the controller they build and their parameter types.
ControllerCtor(c) ==
  CASE c = "NewCtlE"  -> [decl |-> "cN",  deps |-> {"E"}]
    [] c = "NewCtlGE" -> [decl |-> "cGE", deps |-> {}]
    [] c = "NewCG"    -> [decl |-> "cG",  deps |-> {}]
    [] c = "NewC0"    -> [decl |-> "c0",  deps |-> {}]
    [] c = "NewCS"    -> [decl |-> "cS",  deps |-> {}]
    [] c = "NewCE"    -> [decl |-> "cE",  deps |-> {}]
    [] c = "NewCP"    -> [decl |-> "cP",  deps |-> {}]
    [] c = "NewCAB"   -> [decl |-> "cAB", deps |-> {}]
    [] c = "NewC2R"   -> [decl |-> "c2R", deps |-> {}]
    [] c = "NewC1"    -> [decl |-> "c1",  deps |-> {}]
    [] c = "NewC2"    -> [decl |-> "c2",  deps |-> {}]

ModNames == {"R", "A", "B", "C"}
RootName == "R"

\* which module declarations a declaration may import (keeps the graph acyclic)
Importable(m) ==
  CASE m = "R" -> {"A", "B"}
    [] m = "A" -> {"C"}
    [] m = "B" -> {"C"}
    [] OTHER   -> {}

\* Providers, Exports and Controllers hold values (direct injection); the
\* other lists hold constructors.
ModuleConfig(g, imps, pv, ex, ct) ==
  [IsGlobal |-> g, Imports |-> imps, Exports |-> <<>>, ExportsCtors |-> ex,
   Providers |-> <<>>, ProvidersCtors |-> pv, Controllers |-> <<>>,
   ControllersCtors |-> ct]

\* Provider values: the type of the value.
Provider(v) ==
  CASE v = "valF" -> [out |-> "F"]

EmptyModule == ModuleConfig(FALSE, <<>>, <<>>, <<>>, <<>>)

\* provider/export lists a declaration may carry
ProviderKinds ==
  { [pv |-> <<>>,              ex |-> <<>>],           \* nothing
    [pv |-> <<"NewE">>,        ex |-> <<"NewE">>],     \* exported provider
    [pv |-> <<"NewD", "NewED">>, ex |-> <<"NewED">>],  \* export with a private dependency
    [pv |-> <<>>,              ex |-> <<"NewE">>] }    \* export matching no provider

\* Module trees with providers and exports; at most one module holds a
\* controller, whose constructor (or guard constructor) needs type E.
\* Declarations no import path reaches stay empty.
TreeConfigs ==
  { [m \in ModNames |->
       CASE m = "R" -> ModuleConfig(FALSE, ri, <<>>, <<>>, IF h = "R" THEN hc ELSE <<>>)
         [] m = "A" -> IF "A" \notin Range(ri) THEN EmptyModule
                       ELSE ModuleConfig(ag, ai, ak.pv, ak.ex, IF h = "A" THEN hc ELSE <<>>)
         [] m = "B" -> IF "B" \notin Range(ri) THEN EmptyModule
                       ELSE ModuleConfig(FALSE, <<>>, bk.pv, bk.ex, IF h = "B" THEN hc ELSE <<>>)
         [] m = "C" -> IF "A" \notin Range(ri) \/ "C" \notin Range(ai) THEN EmptyModule
                       ELSE ModuleConfig(cg, <<>>, ck.pv, ck.ex, <<>>)] :
      ri \in BoundedSeq(Importable("R"), MaxImports),
      ai \in BoundedSeq(Importable("A"), MaxImports),
      ag \in BOOLEAN, cg \in BOOLEAN,
      ak \in ProviderKinds, ck \in ProviderKinds,
      bk \in {k \in ProviderKinds : k.pv = k.ex /\ Len(k.pv) <= 1},
      h \in {"none", "R", "A", "B"},
      hc \in {<<"NewCtlE">>, <<"NewCtlGE">>} }

\* Applications with controllers, guards and routes: a single module, or a
\* root and one import.
GuardConfigs ==
  { [m \in ModNames |->
       IF m = "R" THEN ModuleConfig(FALSE, <<>>, <<>>, <<>>, rc) ELSE EmptyModule] :
      rc \in {<<"NewC0">>, <<"NewCAB">>, <<"NewC2R">>, <<"NewC1", "NewC2">>,
              <<"NewCG", "NewC0">>, <<"NewC0", "NewC0">>,
              <<"NewCS">>, <<"NewCE">>, <<"NewCP">>} }
  \cup
  { [m \in ModNames |->
       CASE m = "R" -> ModuleConfig(FALSE, <<"A">>, <<>>, <<>>, rc)
         [] m = "A" -> ModuleConfig(FALSE, <<>>, <<>>, <<>>, ac)
         [] OTHER   -> EmptyModule] :
      rc \in {<<>>, <<"NewCG">>, <<"NewC0">>},
      ac \in {<<"NewC0">>, <<"NewC1">>} }

\* One declaration imported from two branches: R imports A and B, and both
\* import C.
DiamondConfigs ==
  { [m \in ModNames |->
       CASE m = "R" -> ModuleConfig(FALSE, <<"A", "B">>, <<>>, <<>>, <<>>)
         [] m = "C" -> ModuleConfig(cg, <<>>, ck.pv, ck.ex, <<>>)
         [] OTHER   -> ModuleConfig(FALSE, <<"C">>, <<>>, <<>>, <<>>)] :
      cg \in BOOLEAN, ck \in ProviderKinds }

\* Direct injection: a module listing a provider value, an export value
\* and a controller value, alone or imported by the root, beside the same
\* things given by constructors.
DirectConfigs ==
  { [m \in ModNames |->
       CASE m = "R" -> IF imported THEN ModuleConfig(FALSE, <<"A">>, <<>>, <<>>, <<>>) ELSE d
         [] m = "A" -> IF imported THEN d ELSE EmptyModule
         [] OTHER   -> EmptyModule] :
      imported \in BOOLEAN,
      d \in { [ModuleConfig(g, <<>>, k.pv, k.ex, ct) EXCEPT
                 !.Providers = pvs, !.Exports = exs, !.Controllers = cs] :
               g \in BOOLEAN,
               k \in {x \in ProviderKinds : x.pv = x.ex /\ Len(x.pv) <= 1},
               ct \in {<<>>, <<"NewC2">>},
               pvs \in {<<>>, <<"valF">>},
               exs \in {<<>>, <<"valF">>},
               cs \in {<<>>, <<"c1">>} } }

Configs == TreeConfigs \cup GuardConfigs \cup DiamondConfigs \cup DirectConfigs

\* --------------------------------------------------------------- state
VARIABLES
  cfg,       \* the application's module declarations (Module.Config() of each)
  status,    \* "init" | "building" | "built" | "failed" | "panicked"
  err,       \* the error New returns (nil when none)
  app,       \* the *App New returns: the root module instance, 0 when none
  scopes,    \* dig scopes: <<[parent, name]>>, scope 1 is the container
  provs,     \* dig providers: {[scope, type, ctor, orig]}
  groups,    \* dig value-group providers, in Provide order: <<[scope, group, val]>>
  mods,      \* module instances: <<[decl, scope, parent, imports]>>
  ctrls,     \* controller instances: <<[decl, module, guards, routes]>>
  arrays,    \* backing arrays of the []*guard slices
  mux,       \* http.ServeMux entries: <<[pattern, ctrl, route, guards]>>
  stack,     \* newModule call stack, innermost frame last
  log,       \* build steps executed so far: <<[op, mod, res]>>; a route step
             \* also holds its controller, its route and the pattern for the mux
  reqs,      \* requests dispatched so far
  srv        \* the HttpServer: Listen's goroutines, channels and http.Server

vars == <<cfg, status, err, app, scopes, provs, groups, mods, ctrls, arrays, mux,
          stack, log, reqs, srv>>

appVars == <<cfg, status, err, app, scopes, provs, groups, mods, ctrls, arrays, mux,
             stack, log, reqs>>

buildVars == <<scopes, provs, groups, mods, ctrls, arrays, mux, stack, log>>

\* ------------------------------------------------------- identity tokens
\* GetToken: the stable identity token of a module or constructor.
GetToken(x) == <<"token", x>>

\* ------------------------------------------------- go.uber.org/dig scopes
ContainerScope == 1

\* Scope.storesToRoot: the scope itself, then its ancestors up to the container.
RECURSIVE storesToRoot(_, _)
storesToRoot(sc, s) == IF s = 0 THEN <<>> ELSE <<s>> \o storesToRoot(sc, sc[s].parent)

\* Scope.Scope(name): a new child scope of s.
NewScope(sc, s, name) == Append(sc, [parent |-> s, name |-> name])

\* Scope.Provide(ctor, dig.Export(exported)): an exported constructor is
\* stored in the root scope; a type already provided in the target scope is
\* an error. Parameters are resolved later, from the scope of the call.
Provide(pv, s, ctor, exported) ==
  LET target == IF exported THEN ContainerScope ELSE s
      t == ProviderCtor(ctor).out
  IN IF \E p \in pv : p.scope = target /\ p.type = t
     THEN [ok |-> FALSE, provs |-> pv]
     ELSE [ok |-> TRUE,
           provs |-> pv \cup {[scope |-> target, type |-> t, ctor |-> ctor, orig |-> s]}]

\* the nearest scope from s to the root that provides type t, 0 when none
ProvidingScope(sc, pv, s, t) ==
  LET chain == storesToRoot(sc, s)
      hits == {i \in 1..Len(chain) : \E p \in pv : p.scope = chain[i] /\ p.type = t}
  IN IF hits = {} THEN 0
     ELSE chain[CHOOSE i \in hits : \A j \in hits : i <= j]

\* paramSingle.Build: the nearest provider is called with the scope it was
\* provided from, which resolves its own parameters in turn.
RECURSIVE Resolvable(_, _, _, _)
Resolvable(sc, pv, s, t) ==
  LET c == ProvidingScope(sc, pv, s, t)
  IN /\ c # 0
     /\ LET n == CHOOSE p \in pv : p.scope = c /\ p.type = t
        IN \A d \in ProviderCtor(n.ctor).deps : Resolvable(sc, pv, n.orig, d)

\* Scope.Provide(ctor, dig.Group(g)): grouped results are never rejected.
RECURSIVE ProvideGroup(_, _, _, _)
ProvideGroup(gr, s, g, vals) ==
  IF vals = <<>> THEN gr
  ELSE ProvideGroup(Append(gr, [scope |-> s, group |-> g, val |-> Head(vals)]),
                    s, g, Tail(vals))

\* the values of group g stored in scope c, in Provide order
ScopeGroup(gr, c, g) ==
  LET sel == SelectSeq(gr, LAMBDA e : e.scope = c /\ e.group = g)
  IN [i \in 1..Len(sel) |-> sel[i].val]

\* paramGroupedSlice.Build: the group's values of every scope from s to the
\* root, own scope first; getValueGroup hands each scope's values out as a
\* shuffled copy, so every ordering within a scope is possible.
GroupValues(sc, gr, s, g) ==
  LET chain == storesToRoot(sc, s)
  IN {ConcatAll(pick) :
        pick \in Product([i \in 1..Len(chain) |-> Orderings(ScopeGroup(gr, chain[i], g))])}

\* ------------------------------------------------------------ Go slices
NilSlice == [arr |-> 0, len |-> 0, cap |-> 0]

\* runtime.roundupsize for 8-byte elements (malloc size classes)
RoundUpCap(n) ==
  IF n <= 4 THEN n
  ELSE n + (n % 2)

\* runtime.growslice: the capacity of the array a slice of capacity cap
\* moves to when it must hold need elements
GrowCap(cap, need) ==
  RoundUpCap(IF need > 2 * cap THEN need ELSE 2 * cap)

SliceElems(ar, sl) == IF sl.len = 0 THEN <<>> ELSE SubSeq(ar[sl.arr], 1, sl.len)

\* append(sl, xs...): in place when the capacity suffices, else into a new array
GoAppend(ar, sl, xs) ==
  LET n == sl.len + Len(xs)
  IN IF xs = <<>> THEN [arrays |-> ar, slice |-> sl]
     ELSE IF n <= sl.cap
     THEN [arrays |-> [ar EXCEPT ![sl.arr] =
                         [i \in 1..sl.cap |->
                            IF i > sl.len /\ i <= n THEN xs[i - sl.len] ELSE @[i]]],
           slice |-> [sl EXCEPT !.len = n]]
     ELSE LET c == GrowCap(sl.cap, n)
              old == SliceElems(ar, sl)
          IN [arrays |-> Append(ar, [i \in 1..c |->
                            IF i <= sl.len THEN old[i]
                            ELSE IF i <= n THEN xs[i - sl.len] ELSE nil]),
              slice |-> [arr |-> Len(ar) + 1, len |-> n, cap |-> c]]

\* for _, x := range xs { sl = append(sl, x) }
RECURSIVE AppendEach(_, _, _)
AppendEach(ar, sl, xs) ==
  IF xs = <<>> THEN [arrays |-> ar, slice |-> sl]
  ELSE LET r == GoAppend(ar, sl, <<Head(xs)>>)
       IN AppendEach(r.arrays, r.slice, Tail(xs))

\* ------------------------------------------------------------- strings
defaultPath == <<"/">>
pathSeparator == <<"/">>

\* strings.TrimPrefix
TrimPrefix(s, pre) ==
  IF Len(s) >= Len(pre) /\ SubSeq(s, 1, Len(pre)) = pre
  THEN SubSeq(s, Len(pre) + 1, Len(s)) ELSE s

\* strings.TrimSpace
RECURSIVE TrimSpace(_)
TrimSpace(s) ==
  IF s = <<>> THEN s
  ELSE IF Head(s) = " " THEN TrimSpace(Tail(s))
  ELSE IF s[Len(s)] = " " THEN TrimSpace(SubSeq(s, 1, Len(s) - 1))
  ELSE s

\* controller.getPath: "<METHOD> <root>/<path>"
getPath(cc, r) ==
  LET root == IF cc.Pattern = <<>> THEN defaultPath ELSE cc.Pattern   \* cmp.Or
      path == TrimPrefix(r.Pattern, pathSeparator)
  IN TrimSpace(r.Method \o <<" ">> \o root \o pathSeparator \o path)

\* two path separators in a row: path.Clean would change such a path
HasDoubledSeparator(s) ==
  \E i \in 1..(Len(s) - 1) : SubSeq(s, i, i) = pathSeparator /\ SubSeq(s, i + 1, i + 1) = pathSeparator

\* ------------------------------------------------------ module.go helpers
\* one executed build step of module instance m and how it ended
Step(op, m, res) == [op |-> op, mod |-> m, res |-> res]

Result(ok) == IF ok THEN "ok" ELSE "error"

\* one iteration of _registerRoutes, with the pattern getPath computed
RouteStep(m, res, d, j, pattern) ==
  [op |-> "route", mod |-> m, res |-> res, ctl |-> d, route |-> j, pattern |-> pattern]

\* newModule beginning with the controllers
FrameControllersFirst(m) ==
  [mod |-> m, pc |-> "controllers", i |-> 1, pending |-> <<>>, ctl |-> 0, j |-> 1]

Frame(m) == [mod |-> m, pc |-> "providers", i |-> 1, pending |-> <<>>, ctl |-> 0, j |-> 1]

Top == stack[Len(stack)]
TopMod == mods[Top.mod]
TopCfg == cfg[TopMod.decl]

SetTop(f) == [stack EXCEPT ![Len(stack)] = f]

\* module.isExportedProvider
isExportedProvider(mCfg, provider) ==
  \E k \in 1..Len(mCfg.ExportsCtors) : GetToken(mCfg.ExportsCtors[k]) = GetToken(provider)

\* every provider of a global module taken for a global export
isGlobExportOfGlobal(mCfg, pvdCtor) == mCfg.IsGlobal

\* module._registerProviders: isGlobExport of one provider constructor
isGlobExport(mCfg, pvdCtor) == mCfg.IsGlobal /\ isExportedProvider(mCfg, pvdCtor)

\* module._registerProviders: Provide each of ProvidersCtors into the
\* module's scope, stopping at the first error
RECURSIVE _registerProviders(_, _, _, _)
_registerProviders(pv, s, mCfg, ctors) ==
  IF ctors = <<>> THEN [ok |-> TRUE, provs |-> pv]
  ELSE LET r == Provide(pv, s, Head(ctors), isGlobExport(mCfg, Head(ctors)))
       IN IF r.ok THEN _registerProviders(r.provs, s, mCfg, Tail(ctors)) ELSE r

RECURSIVE ProvideEach(_, _, _)
ProvideEach(pv, s, ctors) ==
  IF ctors = <<>> THEN [ok |-> TRUE, provs |-> pv]
  ELSE LET r == Provide(pv, s, Head(ctors), FALSE)
       IN IF r.ok THEN ProvideEach(r.provs, s, Tail(ctors)) ELSE r

\* exports propagated to the parent of a global module too
exportScopeOfParent(ms, mCfg, m) ==
  IF ms[m].parent = 0 THEN 0 ELSE ms[ms[m].parent].scope

\* module._registerExportedProviders: the scope the exports of module
\* instance m go to, 0 when none are registered
exportScope(ms, mCfg, m) ==
  IF mCfg.IsGlobal \/ ms[m].parent = 0 THEN 0 ELSE ms[ms[m].parent].scope

\* module._registerExportedProviders
_registerExportedProviders(pv, ms, mCfg, m) ==
  LET target == exportScope(ms, mCfg, m)
  IN IF target = 0 THEN [ok |-> TRUE, provs |-> pv]
     ELSE ProvideEach(pv, target, mCfg.ExportsCtors)

\* module.assignParent
assignParent(ms, m, parent) ==
  IF parent # 0
  THEN [ms EXCEPT ![m].parent = parent, ![parent].imports = Append(@, m)]
  ELSE ms

\* an error that is dropped: New returns the App all the same
AbortSwallowed(stage) ==
  /\ status' = "built"
  /\ err' = nil
  /\ app' = 1
  /\ stack' = <<>>
  /\ UNCHANGED <<srv, cfg, reqs>>

\* every return path with a non-nil error, up to New: no App is built
Abort(stage) ==
  /\ status' = "failed"
  /\ err' = stage
  /\ stack' = <<>>
  /\ UNCHANGED <<srv, cfg, app, reqs>>

\* a panic inside New (http.ServeMux.Handle): New does not return
Panic ==
  /\ status' = "panicked"
  /\ stack' = <<>>
  /\ UNCHANGED <<srv, cfg, err, app, reqs>>

\* ------------------------------------------------------------ server.go
ErrServerClosed == "http: Server closed"
DeadlineExceeded == "context deadline exceeded"

\* errors of ListenAndServe other than the normal close
FatalErrors == {"listen error", "accept error"}

\* newHttpServer: the server before Listen; the fields hold
\*   main      Listen's position: "idle", "select", "shutdown", "returned"
\*   via       the select case Listen took
\*   ret       what Listen returned
\*   serve     the goroutine around ListenAndServe: "none", "start",
\*             "serving", "returned", "exiting", "done"
\*   serveErr  what ListenAndServe returned
\*   errChan, closed, sigChan   the two channels of Listen (capacity 1)
\*   inShutdown, listening, conns   the http.Server
\*   other     a Shutdown called from another goroutine: "none",
\*             "shutdown", "returned"
\*   shutRet   what each Shutdown call returned
newHttpServer ==
  [main |-> "idle", via |-> "none", ret |-> "none",
   serve |-> "none", serveErr |-> "none",
   errChan |-> <<>>, closed |-> FALSE, sigChan |-> 0,
   inShutdown |-> FALSE, listening |-> FALSE, conns |-> 0,
   other |-> "none", shutRet |-> [listen |-> "none", other |-> "none"]]

\* ----------------------------------------------------------------- Init
Init ==
  /\ cfg \in Configs
  /\ status = "init"
  /\ err = nil
  /\ app = 0
  /\ scopes = <<>>
  /\ provs = {}
  /\ groups = <<>>
  /\ mods = <<>>
  /\ ctrls = <<>>
  /\ arrays = <<>>
  /\ mux = <<>>
  /\ stack = <<>>
  /\ log = <<>>
  /\ reqs = <<>>
  /\ srv = newHttpServer

\* ------------------------------------------------------- godi.New, newModule
\* New: the container, the *HttpServer provider, the root module's scope
\* and the call of newModule on the root module.
New ==
  /\ status = "init"
  /\ status' = "building"
  /\ scopes' = NewScope(<<[parent |-> 0, name |-> "container"]>>, ContainerScope,
                        GetToken(RootName))
  /\ provs' = Provide({}, ContainerScope, "newHttpServer", FALSE).provs
  /\ mods' = <<[decl |-> RootName, scope |-> 2, parent |-> 0, imports |-> <<>>]>>
  /\ stack' = <<Frame(1)>>
  /\ UNCHANGED <<srv, cfg, err, app, groups, ctrls, arrays, mux, log, reqs>>

\* newModule: mod.__registerProviders()
RegisterProviders ==
  /\ status = "building" /\ Top.pc = "providers"
  /\ LET r == _registerProviders(provs, TopMod.scope, TopCfg, TopCfg.ProvidersCtors)
     IN /\ provs' = r.provs
        /\ log' = Append(log, Step("providers", Top.mod, Result(r.ok)))
        /\ UNCHANGED <<scopes, groups, mods, ctrls, arrays, mux>>
        /\ IF r.ok
           THEN /\ stack' = SetTop([Top EXCEPT !.pc = "controllers"])
                /\ UNCHANGED <<srv, cfg, status, err, app, reqs>>
           ELSE Abort("error registering providers")

\* the frame once the current controller has no route left to register:
\* the next controller of the group, or the module's imports
NextController(f) ==
  LET rest == Tail(f.pending)
  IN [f EXCEPT !.pending = rest, !.ctl = 0, !.j = 1,
               !.pc = IF rest = <<>> THEN "imports" ELSE "guards"]

\* newModule: mod._registerControllers(), up to the controllers the Invoke
\* callback receives
RegisterControllers ==
  /\ status = "building" /\ Top.pc = "controllers"
  /\ LET s == TopMod.scope
         ctors == TopCfg.ControllersCtors
         gr == ProvideGroup(groups, s, "controllers", ctors)
         ok == \A k \in 1..Len(ctors) :
                 \A d \in ControllerCtor(ctors[k]).deps : Resolvable(scopes, provs, s, d)
     IN /\ groups' = gr
        /\ log' = Append(log, Step("controllers", Top.mod, Result(ok)))
        /\ UNCHANGED <<scopes, provs, mods, ctrls, arrays, mux>>
        /\ IF ok
           THEN /\ \E order \in GroupValues(scopes, gr, s, "controllers") :
                     stack' = SetTop([Top EXCEPT
                                 !.pending = order,
                                 !.pc = IF order = <<>> THEN "imports" ELSE "guards"])
                /\ UNCHANGED <<srv, cfg, status, err, app, reqs>>
           ELSE Abort("error registering controllers")

\* ------------------------------------------------- controllers and guards
\* newGuard: the *guard wrapping a resolved Guard
newGuard(grd) == [Guard |-> grd]

\* the Guard values a list of guard instances and guard constructors puts
\* into the "guards" group
GuardValues(gs, gctors) == gs \o [k \in 1..Len(gctors) |-> GuardCtor(gctors[k]).out]

GuardDepsResolvable(sc, pv, s, gctors) ==
  \A k \in 1..Len(gctors) : \A d \in GuardCtor(gctors[k]).deps : Resolvable(sc, pv, s, d)

CurCtl == ControllerConfig(ControllerCtor(Head(Top.pending)).decl)

\* newController: ctrl._registerGuards() for the next controller of the
\* group: its guards are provided into the module's scope under the group
\* "guards", and c.guards is filled from what the group resolves to there.
RegisterGuards ==
  /\ status = "building" /\ Top.pc = "guards"
  /\ LET s == TopMod.scope
         cCfg == CurCtl
         gr == ProvideGroup(groups, s, "guards", GuardValues(cCfg.Guards, cCfg.GuardsCtors))
         ok == GuardDepsResolvable(scopes, provs, s, cCfg.GuardsCtors)
     IN /\ groups' = gr
        /\ log' = Append(log, Step("guards", Top.mod, Result(ok)))
        /\ UNCHANGED <<scopes, provs, mods, mux>>
        /\ IF ok
           THEN /\ \E input \in GroupValues(scopes, gr, s, "guards") :
                     LET r == AppendEach(arrays, NilSlice,
                                         [k \in 1..Len(input) |-> newGuard(input[k])])
                         f == [Top EXCEPT !.ctl = Len(ctrls) + 1, !.j = 1, !.pc = "routes"]
                     IN /\ arrays' = r.arrays
                        /\ ctrls' = Append(ctrls,
                                      [decl |-> ControllerCtor(Head(Top.pending)).decl,
                                       module |-> Top.mod, guards |-> r.slice,
                                       routes |-> <<>>])
                        /\ stack' = SetTop(IF cCfg.RoutesCfgs = <<>>
                                           THEN NextController(f) ELSE f)
                /\ UNCHANGED <<srv, cfg, status, err, app, reqs>>
           ELSE /\ UNCHANGED <<ctrls, arrays>>
                /\ Abort("error registering controllers")

\* newRoute: the route's guards and guard constructors go into the
\* module's scope under the group "guards" ...
newRouteProvide(gr, s, rCfg) ==
  ProvideGroup(gr, s, "guards", GuardValues(rCfg.Guards, rCfg.GuardsCtors))

\* ... and r.guards is what the group resolves to in that scope.
newRouteGuards(sc, gr, s) ==
  {[k \in 1..Len(input) |-> newGuard(input[k])] :
     input \in GroupValues(sc, gr, s, "guards")}

\* server.mux.Handle(pattern, handler): whether http.ServeMux panics. It does
\* on a pattern it already holds; a method pattern whose path is not clean
\* is rejected by the net/http releases that validate it and accepted by
\* the others.
MuxRejects(mx, pattern) ==
  IF \E k \in 1..Len(mx) : mx[k].pattern = pattern THEN {TRUE}
  ELSE IF HasDoubledSeparator(pattern) THEN {TRUE, FALSE}
  ELSE {FALSE}

\* controller.getGuards: append(c.guards, r.guards...)
getGuards(ar, c, r) == GoAppend(ar, c.guards, r.guards)

\* ctrl._registerRoutes(), one iteration of its loop: newRoute resolves the
\* route's guards like _registerGuards does, the route is appended to
\* c.routes and its handler is registered with the mux under getPath.
RegisterRoute ==
  /\ status = "building" /\ Top.pc = "routes"
  /\ LET s == TopMod.scope
         cCfg == CurCtl
         rCfg == cCfg.RoutesCfgs[Top.j]
         gr == newRouteProvide(groups, s, rCfg)
         pattern == getPath(cCfg, rCfg)
         ok == /\ Resolvable(scopes, provs, s, "HttpServer")
               /\ GuardDepsResolvable(scopes, provs, s, rCfg.GuardsCtors)
     IN \E taken \in MuxRejects(mux, pattern) :
        /\ groups' = gr
        /\ log' = Append(log, RouteStep(Top.mod,
                                        IF ~ok THEN "error" ELSE IF taken THEN "panic" ELSE "ok",
                                        ControllerCtor(Head(Top.pending)).decl, Top.j,
                                        pattern))
        /\ UNCHANGED <<scopes, provs, mods>>
        /\ IF ~ok
           THEN /\ UNCHANGED <<ctrls, arrays, mux>>
                /\ Abort("error registering controllers")
           ELSE \E rg \in newRouteGuards(scopes, gr, s) :
                  LET r == [cfg |-> Top.j, controller |-> Top.ctl, guards |-> rg]
                      c == [ctrls[Top.ctl] EXCEPT !.routes = Append(@, r)]
                      g == getGuards(arrays, c, r)
                      f == [Top EXCEPT !.j = @ + 1]
                  IN /\ ctrls' = [ctrls EXCEPT ![Top.ctl] = c]
                     /\ arrays' = g.arrays
                     /\ IF taken   \* ServeMux.Handle panics
                        THEN /\ mux' = mux
                             /\ Panic
                        ELSE /\ mux' = Append(mux, [pattern |-> pattern, ctrl |-> Top.ctl,
                                                    route |-> Top.j, guards |-> g.slice])
                             /\ stack' = SetTop(IF f.j > Len(cCfg.RoutesCfgs)
                                                THEN NextController(f) ELSE f)
                             /\ UNCHANGED <<srv, cfg, status, err, app, reqs>>

\* newModule: the next import: newModule(imported, mod.newChildScope(imported))
BuildImport ==
  /\ status = "building" /\ Top.pc = "imports" /\ Top.i <= Len(TopCfg.Imports)
  /\ LET imported == TopCfg.Imports[Top.i]
     IN /\ scopes' = NewScope(scopes, TopMod.scope, GetToken(imported))
        /\ mods' = Append(mods, [decl |-> imported, scope |-> Len(scopes) + 1,
                                 parent |-> 0, imports |-> <<>>])
        /\ stack' = Append(stack, Frame(Len(mods) + 1))
        /\ log' = Append(log, Step("import", Len(mods) + 1, "ok"))
  /\ UNCHANGED <<srv, cfg, status, err, app, provs, groups, ctrls, arrays, mux, reqs>>

\* newModule returns to the importing newModule, which calls
\* importedMod.assignParent(mod) and importedMod._registerExportedProviders()
ReturnToImporter ==
  /\ status = "building" /\ Top.pc = "imports" /\ Top.i > Len(TopCfg.Imports)
  /\ Len(stack) > 1
  /\ LET child == Top.mod
         caller == stack[Len(stack) - 1]
         ms == assignParent(mods, child, caller.mod)
         r == _registerExportedProviders(provs, ms, TopCfg, child)
     IN /\ mods' = ms
        /\ provs' = r.provs
        /\ log' = Append(log, Step("exports", child, Result(r.ok)))
        /\ UNCHANGED <<scopes, groups, ctrls, arrays, mux>>
        /\ IF r.ok
           THEN /\ stack' = [SubSeq(stack, 1, Len(stack) - 1) EXCEPT
                               ![Len(stack) - 1].i = @ + 1]
                /\ UNCHANGED <<srv, cfg, status, err, app, reqs>>
           ELSE Abort("error registering exports")

\* the root's newModule returns to New, which returns the App
ReturnApp ==
  /\ status = "building" /\ Top.pc = "imports" /\ Top.i > Len(TopCfg.Imports)
  /\ Len(stack) = 1
  /\ status' = "built"
  /\ app' = Top.mod
  /\ stack' = <<>>
  /\ UNCHANGED <<srv, cfg, err, scopes, provs, groups, mods, ctrls, arrays, mux, log, reqs>>

\* ------------------------------------------------------ request dispatch
\* http.Error statuses and the wrapped handler
Forbidden == "Forbidden"
InternalServerError == "Internal Server Error"
Handled == "handler"

Outcomes == {[allowed |-> a, err |-> e] : a \in BOOLEAN, e \in {nil, "guard error"}}

\* runGuards leaving only at a denial, ignoring the guard's error
runGuardsStopsOnDenial(allowed, e) == ~allowed

\* controller.runGuards: the loop leaves at a guard that denies or errs
runGuardsStops(allowed, e) == (~allowed) \/ (e # nil)

\* controller.runGuards: what it returns when it leaves at such a guard
runGuardsDenied(allowed, e) == [allowed |-> FALSE, err |-> e]

\* getHandler testing only the error
respondIgnoringDenial(allowed, e) ==
  IF e # nil THEN InternalServerError ELSE Handled

\* getHandler testing the error before the denial
respondErrorFirst(allowed, e) ==
  IF e # nil THEN InternalServerError
  ELSE IF ~allowed THEN Forbidden
  ELSE Handled

\* controller.getHandler: what the handler does with runGuards' result
respond(allowed, e) ==
  IF ~allowed THEN Forbidden
  ELSE IF e # nil THEN InternalServerError
  ELSE Handled

\* a handler reading its controller's guard list when the request arrives
HandlerGuardsOfController(h) == SliceElems(arrays, ctrls[mux[h].ctrl].guards)

\* the guards the handler of mux entry h captured, read at request time
HandlerGuards(h) == SliceElems(arrays, mux[h].guards)

\* The mux routes a request to the handler registered for its pattern.
Dispatch(h) ==
  /\ status = "built" /\ Len(reqs) < MaxRequests
  /\ reqs' = Append(reqs, [h |-> h, pc |-> "runGuards", pos |-> 1, calls |-> <<>>,
                           allowed |-> TRUE, err |-> nil, resp |-> "none",
                           handled |-> 0])
  /\ UNCHANGED <<srv, cfg, status, err, app, scopes, provs, groups, mods, ctrls, arrays,
                 mux, stack, log>>

\* controller.runGuards, one iteration: guard.Allow(gCtx) returns any outcome
GuardAllow(q) ==
  /\ reqs[q].pc = "runGuards" /\ reqs[q].pos <= Len(HandlerGuards(reqs[q].h))
  /\ \E o \in Outcomes :
       LET g == HandlerGuards(reqs[q].h)[reqs[q].pos]
           called == Append(reqs[q].calls, [guard |-> g.Guard, allowed |-> o.allowed,
                                            err |-> o.err])
       IN reqs' = [reqs EXCEPT ![q] =
                     IF runGuardsStops(o.allowed, o.err)
                     THEN [@ EXCEPT !.calls = called, !.pc = "respond",
                                    !.allowed = runGuardsDenied(o.allowed, o.err).allowed,
                                    !.err = runGuardsDenied(o.allowed, o.err).err]
                     ELSE [@ EXCEPT !.calls = called, !.pos = @ + 1]]
  /\ UNCHANGED <<srv, cfg, status, err, app, scopes, provs, groups, mods, ctrls, arrays,
                 mux, stack, log>>

\* controller.getHandler: runGuards has returned; Forbidden, Internal
\* Server Error or the route's handler
Respond(q) ==
  /\ \/ reqs[q].pc = "respond"
     \/ reqs[q].pc = "runGuards" /\ reqs[q].pos > Len(HandlerGuards(reqs[q].h))
  /\ LET r == respond(reqs[q].allowed, reqs[q].err)
     IN reqs' = [reqs EXCEPT ![q].pc = "done", ![q].resp = r,
                             ![q].handled = IF r = Handled THEN @ + 1 ELSE @]
  /\ UNCHANGED <<srv, cfg, status, err, app, scopes, provs, groups, mods, ctrls, arrays,
                 mux, stack, log>>

\* ------------------------------------------------- HttpServer.Listen
\* Listen, up to the select: the channels, signal.Notify and the goroutine
Listen ==
  /\ srv.main = "idle"
  /\ srv' = [srv EXCEPT !.main = "select", !.serve = "start"]
  /\ UNCHANGED appVars

\* ListenAndServe begins: ErrServerClosed once Shutdown was called, else
\* net.Listen fails or the server starts accepting
ListenAndServe ==
  /\ srv.serve = "start"
  /\ \/ /\ srv.inShutdown
        /\ srv' = [srv EXCEPT !.serve = "returned", !.serveErr = ErrServerClosed]
     \/ /\ ~srv.inShutdown
        /\ \/ srv' = [srv EXCEPT !.serve = "returned", !.serveErr = "listen error"]
           \/ srv' = [srv EXCEPT !.serve = "serving", !.listening = TRUE]
  /\ UNCHANGED appVars

\* the accept loop of a serving server: a connection, a fatal accept error,
\* or ErrServerClosed after Shutdown closed the listener
Serve ==
  /\ srv.serve = "serving"
  /\ \/ /\ ~srv.inShutdown /\ srv.conns < MaxConns
        /\ srv' = [srv EXCEPT !.conns = @ + 1]
     \/ /\ ~srv.inShutdown
        /\ srv' = [srv EXCEPT !.serve = "returned", !.serveErr = "accept error",
                              !.listening = FALSE]
     \/ /\ srv.inShutdown
        /\ srv' = [srv EXCEPT !.serve = "returned", !.serveErr = ErrServerClosed]
  /\ UNCHANGED appVars

\* a connection finishes its request and becomes idle
ConnDone ==
  /\ srv.conns > 0
  /\ srv' = [srv EXCEPT !.conns = @ - 1]
  /\ UNCHANGED appVars

\* the goroutine after ListenAndServe: the error is sent unless it is nil
\* or ErrServerClosed
SendErr ==
  /\ srv.serve = "returned"
  /\ srv' = [srv EXCEPT !.serve = "exiting",
                        !.errChan = IF srv.serveErr \in FatalErrors
                                    THEN <<srv.serveErr>> ELSE <<>>]
  /\ UNCHANGED appVars

\* the goroutine's deferred close(errChan)
CloseErrChan ==
  /\ srv.serve = "exiting"
  /\ srv' = [srv EXCEPT !.serve = "done", !.closed = TRUE]
  /\ UNCHANGED appVars

\* SIGINT or SIGTERM is delivered to sigChan
Signal ==
  /\ srv.main # "idle" /\ srv.sigChan = 0
  /\ srv' = [srv EXCEPT !.sigChan = 1]
  /\ UNCHANGED appVars

\* select, case <-sigChan: Listen calls s.Shutdown
SelectSignal ==
  /\ srv.main = "select" /\ srv.sigChan > 0
  /\ srv' = [srv EXCEPT !.main = "shutdown", !.via = "signal", !.sigChan = 0,
                        !.inShutdown = TRUE, !.listening = FALSE]
  /\ UNCHANGED appVars

\* the error Listen builds from what it received: fmt.Errorf is never nil
ListenError(received) == <<"error listening", received>>

\* select, case err := <-errChan: a value sent, or nil from the closed channel
SelectErr ==
  /\ srv.main = "select" /\ (srv.errChan # <<>> \/ srv.closed)
  /\ LET received == IF srv.errChan # <<>> THEN Head(srv.errChan) ELSE nil
     IN srv' = [srv EXCEPT !.main = "returned", !.via = "errChan", !.errChan = <<>>,
                           !.ret = ListenError(received)]
  /\ UNCHANGED appVars

\* Shutdown is called from another goroutine
Shutdown ==
  /\ srv.other = "none"
  /\ srv' = [srv EXCEPT !.other = "shutdown", !.inShutdown = TRUE, !.listening = FALSE]
  /\ UNCHANGED appVars

\* server.Shutdown(ctx) returns: nil once no connection is active, the
\* context's error when the five seconds pass first
ShutdownReturns(who) ==
  /\ \/ who = "listen" /\ srv.main = "shutdown"
     \/ who = "other" /\ srv.other = "shutdown"
  /\ LET r == IF srv.conns = 0 THEN nil ELSE DeadlineExceeded
     IN srv' = IF who = "listen"
               THEN [srv EXCEPT !.main = "returned", !.ret = r, !.shutRet.listen = r]
               ELSE [srv EXCEPT !.other = "returned", !.shutRet.other = r]
  /\ UNCHANGED appVars

\* ----------------------------------------------------------------- Spec
Next ==
  \/ New
  \/ RegisterProviders
  \/ RegisterControllers
  \/ RegisterGuards
  \/ RegisterRoute
  \/ BuildImport
  \/ ReturnToImporter
  \/ ReturnApp
  \/ \E h \in 1..Len(mux) : Dispatch(h)
  \/ \E q \in 1..Len(reqs) : GuardAllow(q)
  \/ \E q \in 1..Len(reqs) : Respond(q)

Spec == Init /\ [][Next]_vars

\* The HttpServer of an App built from a module that declares nothing.
ListenInit ==
  /\ cfg = [m \in ModNames |-> EmptyModule]
  /\ status = "built"
  /\ err = nil
  /\ app = 1
  /\ scopes = NewScope(<<[parent |-> 0, name |-> "container"]>>, ContainerScope,
                       GetToken(RootName))
  /\ provs = Provide({}, ContainerScope, "newHttpServer", FALSE).provs
  /\ groups = <<>>
  /\ mods = <<[decl |-> RootName, scope |-> 2, parent |-> 0, imports |-> <<>>]>>
  /\ ctrls = <<>>
  /\ arrays = <<>>
  /\ mux = <<>>
  /\ stack = <<>>
  /\ log = <<Step("providers", 1, "ok"), Step("controllers", 1, "ok")>>
  /\ reqs = <<>>
  /\ srv = newHttpServer

ListenNext ==
  \/ Listen
  \/ ListenAndServe
  \/ Serve
  \/ ConnDone
  \/ SendErr
  \/ CloseErrChan
  \/ Signal
  \/ SelectSignal
  \/ SelectErr
  \/ Shutdown
  \/ \E who \in {"listen", "other"} : ShutdownReturns(who)

ListenSpec == ListenInit /\ [][ListenNext]_vars

\* ======================================================================
\* Properties
\* ======================================================================
Built == status = "built"

Instances == 1..Len(mods)

CfgOf(m) == cfg[mods[m].decl]

\* the providers of a declaration that it also exports
ExportedProviders(mCfg) ==
  {c \in Range(mCfg.ProvidersCtors) : isExportedProvider(mCfg, c)}

ExportedTypes(mCfg) == {ProviderCtor(e).out : e \in ExportedProviders(mCfg)}

NearestProvider(s, t) ==
  CHOOSE p \in provs : p.scope = ProvidingScope(scopes, provs, s, t) /\ p.type = t

\* scope s resolves constructor e's type to a registration of e made for
\* module instance m: in m's scope, in its importer's scope or in the root
\* scope for a global export.
Sees(s, m, e) ==
  LET t == ProviderCtor(e).out
  IN /\ Resolvable(scopes, provs, s, t)
     /\ NearestProvider(s, t).ctor = e
     /\ NearestProvider(s, t).scope \in
          {mods[m].scope, ContainerScope} \cup {mods[x].scope : x \in {mods[m].parent} \ {0}}

Siblings(m) == {x \in Instances \ {m} : mods[x].parent # 0 /\ mods[x].parent = mods[m].parent}

\* C1: after a successful build, an exported provider E of a non-global
\* module M is resolvable from M's own scope and from its importer's
\* scope, and is not resolvable from the scope of a sibling module that
\* does not import M.
C1_ExportVisibility ==
  Built =>
    \A m \in Instances : \A e \in ExportedProviders(CfgOf(m)) :
      ~CfgOf(m).IsGlobal =>
        /\ Sees(mods[m].scope, m, e)
        /\ mods[m].parent # 0 => Sees(mods[mods[m].parent].scope, m, e)
        /\ \A x \in Siblings(m) :
             mods[m].decl \notin Range(CfgOf(x).Imports) => ~Sees(mods[x].scope, m, e)

\* C2: after a successful build, an exported provider E of a global module
\* is resolvable from the scope of every module instance of the tree.
C2_GlobalExportEverywhere ==
  Built =>
    \A m \in Instances : \A e \in ExportedProviders(CfgOf(m)) :
      CfgOf(m).IsGlobal =>
        \A x \in Instances : Resolvable(scopes, provs, mods[x].scope, ProviderCtor(e).out)

\* the types the controllers of a declaration need to be built: the
\* parameters of their constructors and of their guards' constructors
ControllerNeeds(c) ==
  LET cc == ControllerConfig(ControllerCtor(c).decl)
      gctors == Range(cc.GuardsCtors)
                \cup UNION {Range(cc.RoutesCfgs[k].GuardsCtors) : k \in 1..Len(cc.RoutesCfgs)}
  IN ControllerCtor(c).deps \cup UNION {GuardCtor(g).deps : g \in gctors}

ModuleNeeds(mCfg) == UNION {ControllerNeeds(c) : c \in Range(mCfg.ControllersCtors)}

ImportedTypes(mCfg) == UNION {ExportedTypes(cfg[i]) : i \in Range(mCfg.Imports)}

ControllerSteps == {"controllers", "guards", "route"}

\* C3: when the controllers and guards of a module need only providers
\* exported by the module's imports, resolving them during the module's
\* build does not fail.
C3_ImportsAvailableToControllers ==
  \A k \in 1..Len(log) :
    (log[k].op \in ControllerSteps /\ log[k].res = "error") =>
      LET mCfg == CfgOf(log[k].mod)
      IN ~(ModuleNeeds(mCfg) # {} /\ ModuleNeeds(mCfg) \subseteq ImportedTypes(mCfg))

\* ------------------------------------------------------------ requests
Requests == 1..Len(reqs)

Done(q) == reqs[q].pc = "done"

CalledGuards(q) == [k \in 1..Len(reqs[q].calls) |-> reqs[q].calls[k].guard]

Passed(call) == call.allowed /\ call.err = nil

LastCall(q) == reqs[q].calls[Len(reqs[q].calls)]

IsPrefix(a, b) == Len(a) <= Len(b) /\ SubSeq(b, 1, Len(a)) = a

\* the guards declared at controller scope and at route scope for mux entry h
DeclaredControllerGuards(h) ==
  LET cc == ControllerConfig(ctrls[mux[h].ctrl].decl)
  IN GuardValues(cc.Guards, cc.GuardsCtors)

DeclaredRouteGuards(h) ==
  LET rc == ControllerConfig(ctrls[mux[h].ctrl].decl).RoutesCfgs[mux[h].route]
  IN GuardValues(rc.Guards, rc.GuardsCtors)

\* C4: the guards a request evaluates are the controller-scoped guards in
\* declaration order followed by the route-scoped guards in declaration
\* order (so no controller guard is called after a route guard).
C4_GuardChainOrder ==
  \A q \in Requests :
    IsPrefix(CalledGuards(q), DeclaredControllerGuards(reqs[q].h) \o DeclaredRouteGuards(reqs[q].h))

\* C5: once a guard returns allowed=false or a non-nil error, no later
\* guard of the chain is called for that request: every call but the last
\* returned (true, nil).
C5_ShortCircuit ==
  \A q \in Requests :
    \A k \in 1..(Len(reqs[q].calls) - 1) : Passed(reqs[q].calls[k])

\* a finished request stopped by a guard that is not the last of its chain
C5_Witness ==
  \E q \in Requests :
    /\ Done(q) /\ reqs[q].calls # <<>>
    /\ ~Passed(LastCall(q))
    /\ Len(reqs[q].calls) < Len(HandlerGuards(reqs[q].h))

AllPassed(q) ==
  /\ Len(reqs[q].calls) = Len(HandlerGuards(reqs[q].h))
  /\ \A k \in 1..Len(reqs[q].calls) : Passed(reqs[q].calls[k])

Denied(q) == \E k \in 1..Len(reqs[q].calls) :
               ~reqs[q].calls[k].allowed /\ reqs[q].calls[k].err = nil

\* C6: the route handler runs exactly once if and only if every guard of
\* the chain returned (true, nil), the empty chain included; when a guard
\* returned (false, nil) the response is Forbidden and the handler never runs.
C6_HandlerIffAllAllowed ==
  \A q \in Requests :
    /\ reqs[q].handled <= 1
    /\ ~Done(q) => reqs[q].handled = 0
    /\ Done(q) => (reqs[q].handled = 1 <=> AllPassed(q))
    /\ (Done(q) /\ Denied(q)) => (reqs[q].resp = Forbidden /\ reqs[q].handled = 0)

\* one request handled after a chain of two or more guards, another denied
C6_Witness ==
  \E q1, q2 \in Requests :
    /\ Done(q1) /\ reqs[q1].handled = 1 /\ Len(reqs[q1].calls) >= 2
    /\ Done(q2) /\ Denied(q2) /\ reqs[q2].resp = Forbidden

\* C7: a request whose chain was cut short by a guard's error is answered
\* with Internal Server Error, not Forbidden, and its handler does not run.
C7_GuardErrorIsServerError ==
  \A q \in Requests :
    (Done(q) /\ reqs[q].calls # <<>> /\ LastCall(q).err # nil) =>
      (reqs[q].resp = InternalServerError /\ reqs[q].handled = 0)

ErredAllowed(q) == reqs[q].calls # <<>> /\ LastCall(q).allowed /\ LastCall(q).err # nil

DeniedLast(q) == reqs[q].calls # <<>> /\ ~LastCall(q).allowed /\ LastCall(q).err = nil

\* C8: at any position of any chain, a guard returning (true, error) has
\* the same outcome as that guard returning (false, nil): the same
\* response, and the handler does not run.
C8_ErrorSameAsDenial ==
  \A q1, q2 \in Requests :
    ( /\ Done(q1) /\ Done(q2)
      /\ reqs[q1].h = reqs[q2].h
      /\ Len(reqs[q1].calls) = Len(reqs[q2].calls)
      /\ ErredAllowed(q1) /\ DeniedLast(q2) ) =>
        /\ reqs[q1].resp = reqs[q2].resp
        /\ reqs[q1].handled = 0 /\ reqs[q2].handled = 0

\* two finished requests to one route, stopped at the same guard, one by
\* (true, error) and one by (false, nil)
C8_Witness ==
  \E q1, q2 \in Requests :
    /\ Done(q1) /\ Done(q2)
    /\ reqs[q1].h = reqs[q2].h
    /\ Len(reqs[q1].calls) = Len(reqs[q2].calls)
    /\ ErredAllowed(q1) /\ DeniedLast(q2)

\* C9: a request evaluates only guards declared by its own route or by its
\* own controller, and a request that reaches its handler has evaluated
\* every guard of its controller.
C9_GuardScoping ==
  \A q \in Requests :
    /\ Range(CalledGuards(q)) \subseteq
         Range(DeclaredControllerGuards(reqs[q].h)) \cup Range(DeclaredRouteGuards(reqs[q].h))
    /\ reqs[q].handled = 1 =>
         Range(DeclaredControllerGuards(reqs[q].h)) \subseteq Range(CalledGuards(q))

HandleSteps == {k \in 1..Len(log) : log[k].op = "route" /\ log[k].res # "error"}

StepBase(k) == ControllerConfig(log[k].ctl).Pattern

StepRoute(k) == ControllerConfig(log[k].ctl).RoutesCfgs[log[k].route]

\* base ("/" when empty) and route pattern joined by exactly one separator
JoinedOnce(base, rp) ==
  LET b == IF base = <<>> THEN <<"/">> ELSE base
      p == IF rp # <<>> /\ Head(rp) = "/" THEN Tail(rp) ELSE rp
  IN IF b[Len(b)] = "/" THEN b \o p ELSE b \o <<"/">> \o p

\* C11: the pattern registered for a route is "<METHOD> <path>", <path>
\* being the controller's base pattern ("/" when empty) joined with the
\* route's pattern without a doubled separator.
C11_PatternJoin ==
  \A k \in HandleSteps :
    log[k].pattern = StepRoute(k).Method \o <<" ">> \o JoinedOnce(StepBase(k), StepRoute(k).Pattern)

\* the path of a "<METHOD> <path>" pattern
RECURSIVE PatternPath(_)
PatternPath(pattern) ==
  IF pattern = <<>> THEN <<>>
  ELSE IF Head(pattern) = " " THEN Tail(pattern)
  ELSE PatternPath(Tail(pattern))

\* C12: with an empty base pattern and an empty route pattern the path
\* handed to the server is exactly "/".
C12_EmptyJoinIsRoot ==
  \A k \in HandleSteps :
    (StepBase(k) = <<>> /\ StepRoute(k).Pattern = <<>>) => PatternPath(log[k].pattern) = <<"/">>

\* ------------------------------------------------------ repeated imports
SameDecl(m) == {x \in Instances \ {m} : mods[x].decl = mods[m].decl}

\* a failed registration step of instance m that hit a registration made
\* for another instance of the same declaration
Collides(k) ==
  LET m == log[k].mod
  IN /\ log[k].res = "error"
     /\ \/ /\ log[k].op = "providers"
           /\ \E x \in SameDecl(m) : \E p \in provs :
                /\ p.scope = ContainerScope /\ p.orig = mods[x].scope
                /\ p.ctor \in Range(CfgOf(m).ProvidersCtors)
        \/ /\ log[k].op = "exports"
           /\ \E j \in 1..(k - 1) :
                /\ log[j].op = "exports" /\ log[j].res = "ok"
                /\ log[j].mod \in SameDecl(m)
                /\ mods[log[j].mod].parent = mods[m].parent
                /\ CfgOf(m).ExportsCtors # <<>>

\* C13: every import of a declaration, also of one imported more than
\* once, gets a module instance and a scope of its own, a child of its own
\* importer; the registrations of one instance never collide with those of
\* another instance of the same declaration, so the build does not fail
\* on them.
C13_IndependentInstances ==
  /\ \A m, x \in Instances : m # x => mods[m].scope # mods[x].scope
  /\ \A m \in Instances : mods[m].parent # 0 =>
        /\ scopes[mods[m].scope].parent = mods[mods[m].parent].scope
        /\ m \in Range(mods[mods[m].parent].imports)
  /\ \A k \in 1..Len(log) : ~Collides(k)

\* ------------------------------------------------------ unmatched exports
\* the export constructors of a declaration that match none of its providers
UnmatchedExports(mCfg) ==
  {x \in Range(mCfg.ExportsCtors) :
     \A k \in 1..Len(mCfg.ProvidersCtors) : GetToken(mCfg.ProvidersCtors[k]) # GetToken(x)}

\* C14: a build that succeeds with an export constructor matching none of
\* the module's provider constructors leaves that export resolvable where
\* an export should be: from the module's own scope and its importer's
\* scope, and from every module scope when the module is global.
C14_UnmatchedExportReachable ==
  Built =>
    \A m \in Instances : \A x \in UnmatchedExports(CfgOf(m)) :
      /\ Sees(mods[m].scope, m, x)
      /\ mods[m].parent # 0 => Sees(mods[mods[m].parent].scope, m, x)
      /\ CfgOf(m).IsGlobal => \A y \in Instances : Sees(mods[y].scope, m, x)

\* ------------------------------------------------------ direct injection
\* the mux holds the routes of controller declaration d, registered for
\* module instance m
RoutesRegistered(m, d) ==
  \A j \in 1..Len(ControllerConfig(d).RoutesCfgs) :
    \E h \in 1..Len(mux) :
      /\ ctrls[mux[h].ctrl].decl = d /\ ctrls[mux[h].ctrl].module = m
      /\ mux[h].route = j

TypeProvidedIn(s, t) == \E p \in provs : p.scope = s /\ p.type = t

\* C15: after a successful build every value of Providers is registered in
\* the module's scope, every value of Exports is propagated like an
\* ExportsCtors entry (to the importer's scope, or to every scope for a
\* global module), and every Controllers value has its routes registered
\* with the server, as happens for the three constructor lists.
C15_DirectInjection ==
  Built =>
    \A m \in Instances :
      /\ \A v \in Range(CfgOf(m).Providers) :
           Resolvable(scopes, provs, mods[m].scope, Provider(v).out)
      /\ \A v \in Range(CfgOf(m).Exports) :
           /\ (~CfgOf(m).IsGlobal /\ mods[m].parent # 0) =>
                TypeProvidedIn(mods[mods[m].parent].scope, Provider(v).out)
           /\ CfgOf(m).IsGlobal => TypeProvidedIn(ContainerScope, Provider(v).out)
      /\ \A c \in Range(CfgOf(m).Controllers) : RoutesRegistered(m, c)

\* ---------------------------------------------------------- step order
Steps == 1..Len(log)

\* the module instance whose newModule built instance c
ImporterOf(c) ==
  CHOOSE x \in Instances : mods[x].scope = scopes[mods[c].scope].parent

\* instance x is c or was built below c
InSubtree(x, c) == mods[c].scope \in Range(storesToRoot(scopes, mods[x].scope))

\* the declarations instance p has begun to import, in the order of the log
ImportsBegun(p) ==
  LET sel == SelectSeq(log, LAMBDA st : st.op = "import" /\ ImporterOf(st.mod) = p)
  IN [k \in 1..Len(sel) |-> mods[sel[k].mod].decl]

\* C18: for every module, its providers are registered before any of its
\* controllers is resolved and its controllers before any of its imports
\* is built; imports are built depth-first in declaration order; a
\* child's exports are propagated after the child and its whole subtree
\* have been built and before the next sibling import begins.
C18_StepOrder ==
  /\ \A k \in Steps :
       log[k].op \in ControllerSteps =>
         \E j \in 1..(k - 1) :
           log[j].op = "providers" /\ log[j].mod = log[k].mod /\ log[j].res = "ok"
  /\ \A k \in Steps :
       log[k].op = "import" =>
         LET p == ImporterOf(log[k].mod)
         IN /\ \E j \in 1..(k - 1) :
                 log[j].op = "controllers" /\ log[j].mod = p /\ log[j].res = "ok"
            /\ \A j \in (k + 1)..Len(log) :
                 log[j].mod = p => log[j].op \notin ControllerSteps \cup {"providers"}
  /\ \A p \in Instances : IsPrefix(ImportsBegun(p), CfgOf(p).Imports)
  /\ \A k \in Steps :
       log[k].op = "import" =>
         LET c == log[k].mod
             ends == {j \in Steps : log[j].op = "exports" /\ log[j].mod = c}
         IN /\ \A j \in ends : j > k
            /\ Cardinality(ends) <= 1
            /\ \A j \in (k + 1)..Len(log) :
                 (\A x \in ends : j < x) => InSubtree(log[j].mod, c)
            /\ \A j \in Steps : \A x \in ends :
                 (InSubtree(log[j].mod, c) /\ j # x) => j < x
            /\ \A j \in (k + 1)..Len(log) :
                 (log[j].op = "import" /\ ImporterOf(log[j].mod) = ImporterOf(c)) =>
                   \E x \in ends : x < j /\ log[x].res = "ok"

\* a built tree of four modules, one below another, with a controller and
\* propagated exports
C18_Witness ==
  /\ Built /\ Len(mods) >= 4
  /\ \E m \in Instances : mods[m].parent \notin {0, 1}
  /\ \E m \in Instances : CfgOf(m).ControllersCtors # <<>>
  /\ \E k \in Steps :
       log[k].op = "exports" /\ log[k].res = "ok" /\ CfgOf(log[k].mod).ExportsCtors # <<>>

\* ------------------------------------------------------- registrations
\* the scope-local registration of constructor c made from scope s
LocalIn(s, c) == [scope |-> s, type |-> ProviderCtor(c).out, ctor |-> c, orig |-> s]

\* the globally exported registration of constructor c made from scope s
GlobalFrom(s, c) ==
  [scope |-> ContainerScope, type |-> ProviderCtor(c).out, ctor |-> c, orig |-> s]

\* C19: a provider is registered as globally exported if and only if its
\* module is global and its constructor's token equals that of one of the
\* module's ExportsCtors; every other provider is registered in the
\* module's own scope only.
C19_GlobalExportMarking ==
  [][ (Len(log') = Len(log) + 1 /\ log'[Len(log')].op = "providers") =>
        LET st == log'[Len(log')]
            sc == mods[st.mod].scope
            mCfg == CfgOf(st.mod)
            Marked(c) == /\ mCfg.IsGlobal
                         /\ \E x \in Range(mCfg.ExportsCtors) : GetToken(x) = GetToken(c)
            expected == {IF Marked(c) THEN GlobalFrom(sc, c) ELSE LocalIn(sc, c) :
                           c \in Range(mCfg.ProvidersCtors)}
        IN /\ provs \subseteq provs'
           /\ (provs' \ provs) \subseteq expected
           /\ st.res = "ok" => provs' \ provs = expected ]_vars

\* a built global module with an exported and a private provider, and a
\* built non-global module with an exported provider
C19_Witness ==
  /\ Built
  /\ \E m \in Instances :
       /\ CfgOf(m).IsGlobal
       /\ \E c \in Range(CfgOf(m).ProvidersCtors) : GlobalFrom(mods[m].scope, c) \in provs
       /\ \E c \in Range(CfgOf(m).ProvidersCtors) : LocalIn(mods[m].scope, c) \in provs
  /\ \E m \in Instances :
       /\ ~CfgOf(m).IsGlobal
       /\ \E c \in ExportedProviders(CfgOf(m)) : LocalIn(mods[m].scope, c) \in provs

\* the exports steps of the build
ExportsSteps == {k \in 1..Len(log) : log[k].op = "exports"}

\* the registrations that are in the scope of instance p because an export
\* was propagated there
PropagatedInto(p, ctors) == {LocalIn(mods[p].scope, c) : c \in Range(ctors)}

\* C20: _registerExportedProviders leaves every scope unchanged when the
\* module is global; otherwise, when it succeeds, it adds exactly one
\* registration per ExportsCtors entry, all of them in the direct parent's
\* scope. It is never run for the root, which has no parent.
C20_ExportPropagationFrame ==
  [][ /\ (app = 0 /\ app' # 0) => (mods[app'].parent = 0 /\ provs' = provs)
      /\ (Len(log') = Len(log) + 1 /\ log'[Len(log')].op = "exports") =>
        LET st == log'[Len(log')]
            c == st.mod
            mCfg == cfg[mods'[c].decl]
            p == mods'[c].parent
        IN /\ p # 0 /\ p = ImporterOf(c)
           /\ provs \subseteq provs'
           /\ mCfg.IsGlobal => provs' = provs
           /\ (provs' \ provs) \subseteq PropagatedInto(p, mCfg.ExportsCtors)
           /\ (~mCfg.IsGlobal /\ st.res = "ok") =>
                /\ provs' \ provs = PropagatedInto(p, mCfg.ExportsCtors)
                /\ Cardinality(provs' \ provs) = Len(mCfg.ExportsCtors) ]_vars

\* a build in which the exports of a non-global child were propagated and
\* those of a global child with exports were not
C20_Witness ==
  /\ Built
  /\ \E k \in ExportsSteps :
       /\ ~CfgOf(log[k].mod).IsGlobal /\ CfgOf(log[k].mod).ExportsCtors # <<>>
       /\ PropagatedInto(mods[log[k].mod].parent, CfgOf(log[k].mod).ExportsCtors) \subseteq provs
  /\ \E k \in ExportsSteps :
       /\ CfgOf(log[k].mod).IsGlobal /\ CfgOf(log[k].mod).ExportsCtors # <<>>
       /\ PropagatedInto(mods[log[k].mod].parent, CfgOf(log[k].mod).ExportsCtors) \cap provs = {}

\* ------------------------------------------------------ after the build
\* the chain registered with the mux for the route of request q
RegisteredChain(q) == SliceElems(arrays, mux[reqs[q].h].guards)

\* what a request with these guard results gets when it is the only one
IsolatedOutcome(q) ==
  IF /\ Len(reqs[q].calls) = Len(RegisteredChain(q))
     /\ \A k \in 1..Len(reqs[q].calls) : Passed(reqs[q].calls[k])
  THEN Handled ELSE Forbidden

RequestsUseRegisteredChain ==
  \A q \in Requests :
    /\ Len(reqs[q].calls) <= Len(RegisteredChain(q))
    /\ \A k \in 1..Len(reqs[q].calls) : reqs[q].calls[k].guard = RegisteredChain(q)[k].Guard
    /\ Done(q) => reqs[q].resp = IsolatedOutcome(q)
    /\ (Done(q) /\ reqs[q].resp = Handled) <=> reqs[q].handled = 1

\* C17: once the build has completed, dispatching requests in any
\* interleaving resolves or constructs no guard and changes neither the
\* route table, nor a controller's guard list, nor a route's chain; every
\* request to a route evaluates that route's registered guard instances,
\* and its outcome is the one it has when dispatched alone.
C17_FixedAfterBuild ==
  /\ []RequestsUseRegisteredChain
  /\ [][Built => UNCHANGED <<scopes, provs, groups, mods, ctrls, arrays, mux, log>>]_vars

\* two interleaved requests to one route with a chain of guards: the later
\* one has finished while the earlier one is still evaluating guards
C17_Witness ==
  \E q1, q2 \in Requests :
    /\ q1 < q2 /\ reqs[q1].h = reqs[q2].h
    /\ reqs[q1].pc = "runGuards" /\ reqs[q1].calls # <<>>
    /\ Done(q2) /\ Len(reqs[q2].calls) >= 2

\* --------------------------------------------------------- route chains
\* the guards of the chain captured for mux entry h, as they are now
ChainGuards(h) ==
  LET ch == SliceElems(arrays, mux[h].guards)
  IN [k \in 1..Len(ch) |-> ch[k].Guard]

\* the chains captured so far are what they were before the step
ChainsKept ==
  \A h \in 1..Len(mux) :
    SliceElems(arrays', mux[h].guards) = SliceElems(arrays, mux[h].guards)

ChainsAsDeclared ==
  \A h \in 1..Len(mux) :
    ChainGuards(h) = DeclaredControllerGuards(h) \o DeclaredRouteGuards(h)

\* C21: the chain captured for a route is the controller's guards followed
\* by the route's own guards, and no later step of the build (another
\* route of the controller, another controller) changes a chain that has
\* been captured.
C21_ChainsIndependent ==
  /\ []ChainsAsDeclared
  /\ [][ChainsKept]_vars

\* ------------------------------------------------------ one-level exports
TypesOf(ctors) == {ProviderCtor(x).out : x \in ctors}

\* type t may be in the scope of instance g for a reason other than a
\* re-export of what g's import p imported: p declares and exports it, g
\* declares it, or another import of g exports it
OwnReason(g, p, t) ==
  \/ t \in ExportedTypes(CfgOf(p))
  \/ t \in TypesOf(Range(CfgOf(g).ProvidersCtors))
  \/ \E y \in Instances \ {p} :
       mods[y].parent = g /\ t \in TypesOf(Range(CfgOf(y).ExportsCtors))

\* C22: a provider exported by a non-global module C is registered by
\* propagation in the scope of C's direct importer P only: it is not
\* registered in, nor resolvable from, the scope of P's own importer
\* unless P itself declares and exports it.
C22_ExportsOneLevel ==
  \A c \in Instances :
    LET p == mods[c].parent
        g == IF p = 0 THEN 0 ELSE mods[p].parent
    IN (p # 0 /\ ~CfgOf(c).IsGlobal) =>
         \A e \in ExportedProviders(CfgOf(c)) :
           LET t == ProviderCtor(e).out
           IN /\ (\E k \in ExportsSteps : log[k].mod = c /\ log[k].res = "ok") =>
                   LocalIn(mods[p].scope, e) \in provs
              /\ g # 0 =>
                   /\ TypeProvidedIn(mods[g].scope, t) => OwnReason(g, p, t)
                   /\ ( /\ Resolvable(scopes, provs, mods[g].scope, t)
                        /\ ~TypeProvidedIn(ContainerScope, t) ) => OwnReason(g, p, t)

\* --------------------------------------------------------------- Listen
ListenReturned == srv.main = "returned"

\* C16: Listen returns only after a termination signal or a fatal server
\* error: after a signal it returns the result of its graceful shutdown,
\* and it returns an 'error listening' error only when ListenAndServe
\* failed with an error other than the normal close, so not because
\* another goroutine called Shutdown.
C16_ListenReturn ==
  ListenReturned =>
    /\ srv.via = "signal" => srv.ret = srv.shutRet.listen
    /\ srv.via = "errChan" => srv.serveErr \in FatalErrors

====
